---- MODULE Spec2Model ----
(***************************************************************************)
(* Model of format_no_std (src/src/lib.rs): the bounded writer WriteTo,    *)
(* its fmt::Write implementation write_str, the observers len, is_empty    *)
(* and as_str, and the entry point show.                                   *)
(*                                                                         *)
(* Bytes are integers 0..255.  A &str fragment is a byte sequence that is  *)
(* valid UTF-8.  The machine word is scaled down: IsizeMax stands for      *)
(* isize::MAX (the largest size of a slice or str) and UsizeModulus for    *)
(* usize::MAX + 1 = 2 * (isize::MAX + 1).                                  *)
(***************************************************************************)
EXTENDS Integers, Sequences, FiniteSets, TLC

\* ---- bounds -------------------------------------------------------------
MaxCap == 3
MaxFragLen == 2
MaxWrites == 3

\* ---- the scaled machine word --------------------------------------------
\* the buffer of the tests: `let mut buf = [0u8; 64]`
TestCap == 64

\* no buffer and no fragment of the model is larger than IsizeMax
IsizeMax ==
  LET m == IF MaxCap > MaxFragLen THEN MaxCap ELSE MaxFragLen
  IN  IF m > TestCap THEN m ELSE TestCap
UsizeModulus == 2 * (IsizeMax + 1)

\* ---- values ---------------------------------------------------------------
None == <<"None">>
Some(x) == <<"Some", x>>
Ok(x) == <<"Ok", x>>
Err == <<"Err">>
Panic == <<"panic">>

\* bytes a fragment is built from: 'A', and the two bytes of U+00E9
FragBytes == {65, 195, 169}
\* bytes the caller's buffer may hold before the call: zeroed or garbage
InitBytes == {0, 255}

SeqsUpTo(S, n) == UNION {[1..k -> S] : k \in 0..n}

\* ---- core::str::from_utf8 ---------------------------------------------------
IsCont(b) == b >= 128 /\ b <= 191

RECURSIVE Utf8From(_, _)
Utf8From(bytes, i) ==
  IF i > Len(bytes) THEN TRUE
  ELSE LET b0 == bytes[i]
           left == Len(bytes) - i
           c(k) == bytes[i + k]
       IN  IF b0 <= 127 THEN Utf8From(bytes, i + 1)
           ELSE IF b0 >= 194 /\ b0 <= 223
             THEN left >= 1 /\ IsCont(c(1)) /\ Utf8From(bytes, i + 2)
           ELSE IF b0 >= 224 /\ b0 <= 239
             THEN /\ left >= 2
                  /\ IsCont(c(1)) /\ IsCont(c(2))
                  /\ (b0 = 224 => c(1) >= 160)
                  /\ (b0 = 237 => c(1) <= 159)
                  /\ Utf8From(bytes, i + 3)
           ELSE IF b0 >= 240 /\ b0 <= 244
             THEN /\ left >= 3
                  /\ IsCont(c(1)) /\ IsCont(c(2)) /\ IsCont(c(3))
                  /\ (b0 = 240 => c(1) >= 144)
                  /\ (b0 = 244 => c(1) <= 143)
                  /\ Utf8From(bytes, i + 4)
           ELSE FALSE

\* a validation that accepts ASCII only
from_utf8_ascii(bytes) ==
  IF \A i \in 1..Len(bytes) : bytes[i] <= 127 THEN Ok(bytes) ELSE Err

from_utf8(bytes) == IF Utf8From(bytes, 1) THEN Ok(bytes) ELSE Err

\* Result::ok
ok(r) == IF r[1] = "Ok" THEN Some(r[2]) ELSE None
\* Option::ok_or(fmt::Error)
ok_or(o) == IF o[1] = "Some" THEN Ok(o[2]) ELSE Err

\* every &str the engine can pass to write_str
Fragments == {s \in SeqsUpTo(FragBytes, MaxFragLen) : Utf8From(s, 1)}

min(a, b) == IF a < b THEN a ELSE b

RECURSIVE Concat(_)
Concat(h) == IF h = <<>> THEN <<>> ELSE Concat(SubSeq(h, 1, Len(h) - 1)) \o h[Len(h)]

RECURSIVE TotalLen(_)
TotalLen(h) == IF h = <<>> THEN 0 ELSE TotalLen(SubSeq(h, 1, Len(h) - 1)) + Len(h[Len(h)])

\* ---- state ------------------------------------------------------------------
VARIABLES
  buf,        \* WriteTo.buf: the caller's byte buffer
  len,        \* WriteTo.len
  pc,         \* "engine": fmt::write is running; "returned": it has returned;
              \* "done": the writer was consumed; "panic": the program panicked
  hist,       \* the fragments passed to write_str so far, in order
  preLen,     \* len before the last write_str
  preBuf,     \* buf before the last write_str
  wres,       \* what the last write_str returned: "none", "Ok", "Err"
  failed,     \* some write_str has returned Err
  engineRes,  \* what fmt::write returned: "none", "Ok", "ErrWrite" (the
              \* fmt::Error of a failed write_str, passed on) or "ErrOwn" (an
              \* fmt::Error the engine raised itself)
  obs,        \* what len() or is_empty() returned, when one was called
              \* since the last write_str
  ret         \* the value show or as_str returned

vars == <<buf, len, pc, hist, preLen, preBuf, wres, failed, engineRes, obs, ret>>

\* ---- WriteTo::new -----------------------------------------------------------
Init ==
  /\ buf \in SeqsUpTo(InitBytes, MaxCap)
  /\ len = 0
  /\ pc = "engine"
  /\ hist = <<>>
  /\ preLen = 0
  /\ preBuf = buf
  /\ wres = "none"
  /\ failed = FALSE
  /\ engineRes = "none"
  /\ obs = <<"none">>
  /\ ret = <<"none">>

\* ---- the observers ------------------------------------------------------------
\* `if self.len <= self.buf.len()` of as_str
as_str_fits == len <= Len(buf)

\* as_str over the whole buffer, `..self.len` forgotten
as_str_whole_buf == IF len <= Len(buf) THEN ok(from_utf8(buf)) ELSE None

\* as_str that truncates to the buffer instead of failing
as_str_clamped == ok(from_utf8(SubSeq(buf, 1, min(len, Len(buf)))))

\* &self.buf[..self.len] panics when self.len > self.buf.len()
as_str ==
  IF as_str_fits
    THEN IF len <= Len(buf) THEN ok(from_utf8(SubSeq(buf, 1, len))) ELSE Panic
    ELSE None

\* len() without the overflow check
WriteTo_len_unchecked == Some(len)

WriteTo_len == IF len <= Len(buf) THEN Some(len) ELSE None

\* is_empty() with `<` for `<=`
is_empty_strict == IF len < Len(buf) THEN Some(len = 0) ELSE None

\* is_empty() asking whether the buffer, not the text, is empty
is_empty_of_buf == IF len <= Len(buf) THEN Some(Len(buf) = 0) ELSE None

is_empty == IF len <= Len(buf) THEN Some(len = 0) ELSE None

\* ---- write_str ----------------------------------------------------------------
\* the early return taken already at self.len == self.buf.len()
already_overflowed_ge(l, b) == l >= Len(b)

\* the early return left out
already_overflowed_never(l, b) == FALSE

\* `if self.len > self.buf.len() { return Err(fmt::Error); }`
already_overflowed(l, b) == l > Len(b)

\* rem taken as the whole buffer
rem_len_whole(l, b) == Len(b)

\* rem = &mut self.buf[self.len..]; rem.len()
rem_len(l, b) == Len(b) - l

\* a fragment that does not fit is not copied at all
num_all_or_nothing(s, l, b) == IF Len(s) > rem_len(l, b) THEN 0 ELSE Len(s)

\* the whole fragment, whatever room is left
num_unclamped(s, l, b) == Len(s)

\* num = min(raw_s.len(), rem.len())
num(s, l, b) == min(Len(s), rem_len(l, b))

\* the copy made at the start of the buffer and not at self.len
copy_from_slice_at_start(b, l, s, n) ==
  [i \in 1..Len(b) |-> IF i <= n THEN s[i] ELSE b[i]]

\* the rest of rem cleared after the copy
copy_from_slice_clear_rest(b, l, s, n) ==
  [i \in 1..Len(b) |-> IF i > l /\ i <= l + n THEN s[i - l]
                        ELSE IF i > l + n THEN 0 ELSE b[i]]

\* rem[..num].copy_from_slice(&raw_s[..num])
copy_from_slice(b, l, s, n) ==
  [i \in 1..Len(b) |-> IF i > l /\ i <= l + n THEN s[i - l] ELSE b[i]]

\* the slices write_str takes: self.buf[self.len..], rem[..num], raw_s[..num];
\* an index out of range panics
slices_in_range(s, l, b, n) ==
  /\ l <= Len(b)
  /\ n >= 0
  /\ n <= Len(b) - l
  /\ n <= Len(s)

\* `=` for `+=`
new_len_assigned(l, s) == Len(s)

\* a terminating byte counted with every fragment
new_len_with_nul(l, s) == l + Len(s) + 1

\* the mathematical value of self.len + raw_s.len()
new_len(l, s) == l + Len(s)

\* self.len += raw_s.len(): wraps in a build without overflow checks and
\* panics in a build with them
add_len(l, s) ==
  IF new_len(l, s) < UsizeModulus THEN {<<"ok", new_len(l, s)>>}
  ELSE {<<"ok", new_len(l, s) % UsizeModulus>>, <<"panic", l>>}

\* `<=` for `<`
write_result_le(n, s) == IF n <= Len(s) THEN "Err" ELSE "Ok"

\* if num < raw_s.len() { Err } else { Ok }
write_result(n, s) == IF n < Len(s) THEN "Err" ELSE "Ok"

\* a write_str that goes on counting on an overflowed writer
write_str_counting_on(s) ==
  /\ pc = "engine"
  /\ Len(hist) < MaxWrites
  /\ hist' = Append(hist, s)
  /\ preLen' = len
  /\ preBuf' = buf
  /\ obs' = <<"none">>
  /\ UNCHANGED <<engineRes, ret, pc>>
  /\ buf' = IF len > Len(buf) THEN buf
            ELSE copy_from_slice(buf, len, s, num(s, len, buf))
  /\ len' = new_len(len, s) % UsizeModulus
  /\ wres' = IF len > Len(buf) THEN "Err" ELSE write_result(num(s, len, buf), s)
  /\ failed' = (failed \/ wres' = "Err")

write_str(s) ==
  /\ pc = "engine"
  /\ Len(hist) < MaxWrites
  /\ hist' = Append(hist, s)
  /\ preLen' = len
  /\ preBuf' = buf
  /\ obs' = <<"none">>
  /\ UNCHANGED <<engineRes, ret>>
  /\ IF already_overflowed(len, buf)
       THEN /\ wres' = "Err"
            /\ failed' = TRUE
            /\ UNCHANGED <<buf, len, pc>>
       ELSE IF ~ slices_in_range(s, len, buf, num(s, len, buf))
         THEN \* a slice index is out of range
              /\ pc' = "panic"
              /\ wres' = "none"
              /\ UNCHANGED <<buf, len, failed>>
         ELSE LET n == num(s, len, buf) IN
              /\ buf' = copy_from_slice(buf, len, s, n)
              /\ \E out \in add_len(len, s) :
                   IF out[1] = "panic"
                     THEN /\ pc' = "panic"
                          /\ wres' = "none"
                          /\ UNCHANGED <<len, failed>>
                     ELSE /\ len' = out[2]
                          /\ wres' = write_result(n, s)
                          /\ failed' = (failed \/ write_result(n, s) = "Err")
                          /\ UNCHANGED pc

\* ---- the queries, called on a live writer -------------------------------------
len_call ==
  /\ pc \in {"engine", "returned"}
  /\ obs' = <<"len", WriteTo_len>>
  /\ UNCHANGED <<buf, len, pc, hist, preLen, preBuf, wres, failed, engineRes, ret>>

is_empty_call ==
  /\ pc \in {"engine", "returned"}
  /\ obs' = <<"is_empty", is_empty>>
  /\ UNCHANGED <<buf, len, pc, hist, preLen, preBuf, wres, failed, engineRes, ret>>

\* as_str(self) consumes the writer
as_str_call ==
  /\ pc \in {"engine", "returned"}
  /\ IF as_str = Panic
       THEN pc' = "panic" /\ UNCHANGED ret
       ELSE pc' = "done" /\ ret' = <<"as_str", as_str>>
  /\ UNCHANGED <<buf, len, hist, preLen, preBuf, wres, failed, engineRes, obs>>

\* ---- show -------------------------------------------------------------------
\* fmt::write(&mut w, arg) returns; the engine decides its own result: it may
\* report an error of its own, and it may pass on or swallow an error of
\* write_str
fmt_write_returns(r) ==
  /\ pc = "engine"
  /\ engineRes = "none"
  /\ r = "ErrWrite" => failed
  /\ engineRes' = r
  /\ pc' = "returned"
  /\ UNCHANGED <<buf, len, hist, preLen, preBuf, wres, failed, obs, ret>>

\* `fmt::write(&mut w, arg)?; w.as_str().ok_or(fmt::Error)`
show_returns ==
  /\ pc = "returned"
  /\ IF engineRes \in {"ErrWrite", "ErrOwn"}
       THEN pc' = "done" /\ ret' = <<"show", Err>>
       ELSE IF as_str = Panic
         THEN pc' = "panic" /\ UNCHANGED ret
         ELSE pc' = "done" /\ ret' = <<"show", ok_or(as_str)>>
  /\ UNCHANGED <<buf, len, hist, preLen, preBuf, wres, failed, engineRes, obs>>

Next ==
  \/ \E s \in Fragments : write_str(s)
  \/ len_call
  \/ is_empty_call
  \/ as_str_call
  \/ \E r \in {"Ok", "ErrWrite", "ErrOwn"} : fmt_write_returns(r)
  \/ show_returns

Spec == Init /\ [][Next]_vars

\* ---- the test test_len ---------------------------------------------------------
\* "Test String foo: 42", what `"Test String {}: {}", "foo", 42` renders to
TestString ==
  <<84, 101, 115, 116, 32, 83, 116, 114, 105, 110, 103, 32,
    102, 111, 111, 58, 32, 52, 50>>

\* `let mut buf = [0u8; 64]; let mut w = WriteTo::new(&mut buf);`
TestInit ==
  /\ buf = [i \in 1..TestCap |-> 0]
  /\ len = 0
  /\ pc = "engine"
  /\ hist = <<>>
  /\ preLen = 0
  /\ preBuf = buf
  /\ wres = "none"
  /\ failed = FALSE
  /\ engineRes = "none"
  /\ obs = <<"none">>
  /\ ret = <<"none">>

\* write!(&mut w, ...): the engine passes the rendered text to write_str piece
\* by piece, in order; where it cuts the pieces is the engine's business
test_write(k) ==
  /\ TotalLen(hist) + k <= Len(TestString)
  /\ write_str(SubSeq(TestString, TotalLen(hist) + 1, TotalLen(hist) + k))

TestNext ==
  \/ \E k \in 0..Len(TestString) : test_write(k)
  \/ len_call
  \/ is_empty_call
  \/ as_str_call
  \/ \E r \in {"Ok", "ErrWrite", "ErrOwn"} : fmt_write_returns(r)
  \/ show_returns

SpecTest == TestInit /\ [][TestNext]_vars

TypeOK ==
  /\ len \in 0..(UsizeModulus - 1)
  /\ pc \in {"engine", "returned", "done", "panic"}
  /\ wres \in {"none", "Ok", "Err"}
  /\ failed \in BOOLEAN
  /\ engineRes \in {"none", "Ok", "ErrWrite", "ErrOwn"}


\* ---- helpers of the properties ----------------------------------------------
capacity == Len(buf)
LastFrag == hist[Len(hist)]
Wrote == hist # <<>> /\ pc # "panic"

\* the length write_str has counted: fragments are added up as long as the
\* sum before the fragment is within the capacity
RECURSIVE CountedLen(_, _)
CountedLen(h, c) ==
  IF h = <<>> THEN 0
  ELSE LET p == CountedLen(SubSeq(h, 1, Len(h) - 1), c)
       IN  IF p > c THEN p ELSE p + Len(h[Len(h)])

\* ---- C1 ---------------------------------------------------------------------
\* C1: when the fragments written so far total at most the capacity, as_str
\* returns exactly their concatenation, byte for byte and in order; in every
\* non-overflowed state bytes [0, len) of the buffer are that concatenation.
C1_ZeroCopy ==
  /\ pc # "panic"
  /\ TotalLen(hist) <= capacity =>
       /\ as_str = Some(Concat(hist))
       /\ ret[1] = "as_str" => ret[2] = Some(Concat(hist))
  /\ len <= capacity => SubSeq(buf, 1, len) = Concat(hist)

C1_Witness ==
  /\ ret[1] = "as_str"
  /\ ret[2] = Some(Concat(hist))
  /\ Len(hist) >= 2
  /\ hist[1] # hist[2]
  /\ hist[1] # <<>> /\ hist[2] # <<>>
  /\ TotalLen(hist) = capacity

\* ---- C2 ---------------------------------------------------------------------
\* C2: when the engine raises no error of its own and the fragments total at
\* most the capacity (exactly the capacity included), show returns Ok of the
\* concatenation of the fragments.
C2_ExactFit ==
  (ret[1] = "show" /\ engineRes # "ErrOwn" /\ TotalLen(hist) <= capacity)
    => ret[2] = Ok(Concat(hist))

C2_Witness ==
  /\ ret[1] = "show"
  /\ engineRes = "Ok"
  /\ capacity > 0
  /\ TotalLen(hist) = capacity
  /\ Len(hist) >= 2
  /\ ret[2] = Ok(Concat(hist))

\* ---- C3 ---------------------------------------------------------------------
\* C3: when the fragments written total more than the capacity, show returns
\* Err(fmt::Error) and len() returns None.
C3_Overflow ==
  TotalLen(hist) > capacity =>
    /\ pc # "panic"
    /\ WriteTo_len = None
    /\ obs[1] = "len" => obs[2] = None
    /\ ret[1] = "show" => ret[2] = Err

C3_Witness ==
  /\ TotalLen(hist) > capacity
  /\ engineRes = "Ok"
  /\ obs = <<"len", None>>
  /\ ret = <<"show", Err>>

\* ---- C4 ---------------------------------------------------------------------
\* C4: a write_str on a writer that was not overflowed returns Ok exactly when
\* the length before plus the fragment's length is at most the capacity, and
\* Err otherwise; either way len grows by the fragment's full length.
C4_WriteResult ==
  (hist # <<>> /\ preLen <= capacity) =>
    /\ pc # "panic"
    /\ wres = "Ok" <=> preLen + Len(LastFrag) <= capacity
    /\ wres = "Err" <=> preLen + Len(LastFrag) > capacity
    /\ len = preLen + Len(LastFrag)

C4_Witness ==
  /\ Wrote
  /\ preLen > 0
  /\ preLen < capacity
  /\ wres = "Err"
  /\ len = preLen + Len(LastFrag)

\* ---- C5 ---------------------------------------------------------------------
\* C5 as stated: len is the sum of the lengths of all fragments passed to
\* write_str, those passed after the overflow included.
C5_Original == len = TotalLen(hist)

\* C5 as amended: len is the sum of the lengths of the fragments passed to
\* write_str up to and including the first one that overflowed; a write_str
\* on an overflowed writer returns Err, copies nothing and leaves len as it is.
C5_CountedLen ==
  /\ len = CountedLen(hist, capacity)
  /\ (hist # <<>> /\ preLen > capacity) =>
       /\ wres = "Err"
       /\ buf = preBuf
       /\ len = preLen

C5_Witness ==
  /\ Wrote
  /\ preLen > capacity
  /\ LastFrag # <<>>
  /\ len = preLen
  /\ len < TotalLen(hist)

\* ---- C6 ---------------------------------------------------------------------
\* C6: once len > capacity, every step keeps len > capacity, every further
\* write_str returns Err, and len(), is_empty() and as_str() return None.
C6_Sticky ==
  [][ len > Len(buf) =>
        /\ len' > Len(buf')
        /\ WriteTo_len' = None
        /\ is_empty' = None
        /\ as_str' = None
        /\ hist' # hist => wres' = "Err"
        /\ obs'[1] # "none" => obs'[2] = None
        /\ ret' # ret => ret'[2] \in {None, Err} ]_vars

C6_Witness ==
  /\ Wrote
  /\ preLen > capacity
  /\ LastFrag = <<>>
  /\ wres = "Err"
  /\ obs = <<"is_empty", None>>
  /\ ret = <<"as_str", None>>

\* ---- C7 ---------------------------------------------------------------------
\* C7 as stated: after a write_str that returned Ok, len() is strictly greater
\* than before, by the fragment's length.
C7_Original ==
  (Wrote /\ wres = "Ok") =>
    /\ WriteTo_len = Some(preLen + Len(LastFrag))
    /\ len > preLen

\* C7 as amended: after a write_str that returned Ok, len() is the length
\* before plus the fragment's length, strictly greater when the fragment is
\* not empty; the length len() reports never decreases.
C7_Monotonic ==
  [][ /\ (hist' # hist /\ wres' = "Ok") =>
           /\ WriteTo_len # None
           /\ WriteTo_len' = Some(len + Len(hist'[Len(hist')]))
           /\ hist'[Len(hist')] # <<>> => len' > len
      /\ (WriteTo_len # None /\ WriteTo_len' # None) => len' >= len ]_vars

C7_Witness ==
  /\ Wrote
  /\ Len(hist) >= 2
  /\ wres = "Ok"
  /\ preLen > 0
  /\ LastFrag # <<>>
  /\ obs = <<"len", Some(preLen + Len(LastFrag))>>

\* ---- C8 ---------------------------------------------------------------------
\* C8: len() is Some(len) exactly when len <= capacity, is_empty() is
\* Some(len = 0) exactly when len <= capacity, both are None otherwise, so
\* one is None iff the other is and is_empty() = Some(true) iff
\* len() = Some(0); a query changes neither len nor the buffer.
C8_ObserversAgree ==
  /\ [](/\ len <= capacity => (WriteTo_len = Some(len) /\ is_empty = Some(len = 0))
        /\ len > capacity => (WriteTo_len = None /\ is_empty = None)
        /\ WriteTo_len = None <=> is_empty = None
        /\ is_empty = Some(TRUE) <=> WriteTo_len = Some(0))
  /\ [][ (obs' # obs /\ obs'[1] # "none") =>
           /\ len' = len /\ buf' = buf
           /\ obs'[1] = "len" => obs'[2] = WriteTo_len
           /\ obs'[1] = "is_empty" => obs'[2] = is_empty ]_vars

C8_Witness ==
  /\ Wrote
  /\ len = capacity
  /\ capacity > 0
  /\ obs = <<"is_empty", Some(FALSE)>>

\* ---- C9 ---------------------------------------------------------------------
\* C9: show returns Ok only if the engine returned Ok and no write_str
\* returned Err, also when the engine swallows the Err, goes on writing and
\* returns Ok itself.
C9_ShowFails ==
  ret[1] = "show" =>
    /\ (engineRes # "Ok" \/ failed) => ret[2] = Err
    /\ ret[2] # Err => (engineRes = "Ok" /\ ~failed /\ ret[2] = Ok(Concat(hist)))

C9_Witness ==
  /\ ret = <<"show", Err>>
  /\ engineRes = "Ok"
  /\ Len(hist) >= 3
  /\ Len(hist[1]) > capacity
  /\ hist[2] = <<>>
  /\ hist[3] # <<>>

\* ---- C10 --------------------------------------------------------------------
\* C10: a job that produces no character (no fragment, or empty fragments
\* only), rendered into a buffer of nonzero capacity, succeeds with the empty
\* text; len() is Some(0) and is_empty() is Some(true).
C10_EmptyJob ==
  (TotalLen(hist) = 0 /\ capacity > 0 /\ pc # "panic") =>
    /\ WriteTo_len = Some(0)
    /\ is_empty = Some(TRUE)
    /\ wres # "Err"
    /\ obs[1] = "len" => obs[2] = Some(0)
    /\ obs[1] = "is_empty" => obs[2] = Some(TRUE)
    /\ (ret[1] = "show" /\ engineRes # "ErrOwn") => ret[2] = Ok(<<>>)

C10_Witness ==
  /\ TotalLen(hist) = 0
  /\ Len(hist) >= 1
  /\ capacity > 0
  /\ obs = <<"is_empty", Some(TRUE)>>
  /\ ret = <<"show", Ok(<<>>)>>

\* ---- C11 --------------------------------------------------------------------
TestWritten == pc # "panic" /\ Len(buf) = TestCap /\ Concat(hist) = TestString

\* C11 as stated: with the 64-byte buffer, after "Test String foo: 42" was
\* written to a fresh writer, len() is Some(20) and is_empty() is Some(false).
C11_Original ==
  TestWritten => (WriteTo_len = Some(20) /\ is_empty = Some(FALSE))

\* C11 as amended: with the 64-byte buffer, after "Test String foo: 42" was
\* written to a fresh writer, len() is Some(19) and is_empty() is Some(false).
C11_TestLen ==
  TestWritten =>
    /\ WriteTo_len = Some(19)
    /\ is_empty = Some(FALSE)
    /\ obs[1] = "len" => obs[2] = Some(19)
    /\ obs[1] = "is_empty" => obs[2] = Some(FALSE)

C11_Witness ==
  /\ TestWritten
  /\ Len(hist) >= 2
  /\ wres = "Ok"
  /\ obs = <<"len", Some(19)>>

\* ---- C12 --------------------------------------------------------------------
\* C12: a write_str on a writer that was not overflowed copies the first
\* min(|fragment|, capacity - len) bytes of the fragment to the buffer at the
\* offset len had before; on the write that overflows, positions
\* [len, capacity) get the prefix of the fragment that fits, and the buffer
\* keeps its size.
C12_CopiedPrefix ==
  (hist # <<>> /\ preLen <= capacity) =>
    /\ pc # "panic"
    /\ Len(buf) = Len(preBuf)
    /\ \A i \in 1..min(Len(LastFrag), capacity - preLen) :
         buf[preLen + i] = LastFrag[i]
    /\ preLen + Len(LastFrag) > capacity =>
         SubSeq(buf, preLen + 1, capacity) = SubSeq(LastFrag, 1, capacity - preLen)

C12_Witness ==
  /\ Wrote
  /\ preLen > 0
  /\ preLen < capacity
  /\ preLen + Len(LastFrag) > capacity
  /\ buf[capacity] = LastFrag[capacity - preLen]
  /\ buf[capacity] # preBuf[capacity]

\* ---- C13 --------------------------------------------------------------------
\* C13: a write_str with length L before and a fragment of n bytes changes
\* only positions [L, min(L + n, capacity)) of the buffer; a write_str on an
\* overflowed writer changes no byte, so what was copied before the overflow
\* stays.
C13_Frame ==
  hist # <<>> =>
    /\ Len(buf) = Len(preBuf)
    /\ \A i \in 1..Len(buf) :
         (i <= preLen \/ i > min(preLen + Len(LastFrag), capacity))
           => buf[i] = preBuf[i]
    /\ preLen > capacity => buf = preBuf

C13_Witness ==
  /\ Wrote
  /\ Len(hist) >= 3
  /\ capacity >= 3
  /\ preLen > capacity
  /\ LastFrag # <<>>
  /\ buf = preBuf
  /\ buf[1] \in FragBytes
  /\ buf[capacity] \in FragBytes

\* ---- C14 --------------------------------------------------------------------
\* C14: with fragments that are valid UTF-8, the accepted prefix of the buffer
\* is valid UTF-8 in every non-overflowed state, so as_str is None exactly
\* when len > capacity, and show does not fail when the engine returned Ok
\* and the text fits.
C14_ValidText ==
  /\ pc # "panic"
  /\ len <= capacity => Utf8From(SubSeq(buf, 1, len), 1)
  /\ as_str = None <=> len > capacity
  /\ ret[1] = "as_str" => (ret[2] = None <=> len > capacity)
  /\ (ret[1] = "show" /\ ret[2] = Err) => (engineRes # "Ok" \/ len > capacity)

\* a 2-byte character was cut by the write that overflowed, and an earlier
\* one was written whole
C14_Witness ==
  /\ Wrote
  /\ capacity >= 3
  /\ buf[1] = 195 /\ buf[2] = 169
  /\ buf[capacity] = 195
  /\ len > capacity
  /\ ~ Utf8From(buf, 1)
  /\ ret = <<"as_str", None>>

\* ---- C15 --------------------------------------------------------------------
\* C15: no operation indexes outside the buffer: no slice of write_str or
\* as_str is out of range, whatever the capacity (0 included) and the state
\* (fresh, full, overflowed); the bytes copied lie within the buffer.
C15_InBounds ==
  /\ pc # "panic"
  /\ (hist # <<>> /\ preLen <= capacity) =>
       slices_in_range(LastFrag, preLen, preBuf, num(LastFrag, preLen, preBuf))
  /\ Len(buf) = Len(preBuf)

\* a write on a full writer overflowed it, and as_str was called after
C15_Witness ==
  /\ Wrote
  /\ Len(hist) >= 2
  /\ preLen = capacity
  /\ LastFrag # <<>>
  /\ len > capacity
  /\ ret = <<"as_str", None>>

\* ---- C16 --------------------------------------------------------------------
\* what the last write_str returns, from the capacity and the fragments alone
ExpectedWres(h, c) ==
  IF h = <<>> THEN "none" ELSE IF CountedLen(h, c) <= c THEN "Ok" ELSE "Err"

\* what as_str returns, from the capacity and the fragments alone
ExpectedText(h, c) == IF TotalLen(h) <= c THEN Some(Concat(h)) ELSE None

\* C16: what write_str, len, is_empty, as_str and show return is determined by
\* the capacity and the fragments written (and, for show, the engine's
\* result), whatever the buffer held before; the text returned is made of
\* the fragments' bytes only.
C16_PriorContents ==
  /\ pc # "panic"
  /\ wres = ExpectedWres(hist, capacity)
  /\ len = CountedLen(hist, capacity)
  /\ as_str = ExpectedText(hist, capacity)
  /\ obs[1] = "len" =>
       obs[2] = (IF TotalLen(hist) <= capacity THEN Some(TotalLen(hist)) ELSE None)
  /\ obs[1] = "is_empty" =>
       obs[2] = (IF TotalLen(hist) <= capacity THEN Some(TotalLen(hist) = 0) ELSE None)
  /\ ret[1] = "as_str" => ret[2] = ExpectedText(hist, capacity)
  /\ ret[1] = "show" =>
       ret[2] = (IF engineRes = "Ok" THEN ok_or(ExpectedText(hist, capacity)) ELSE Err)

\* the buffer held garbage, part of it is still there, and the text returned
\* is the fragments'
C16_Witness ==
  /\ Wrote
  /\ len > 0
  /\ len < capacity
  /\ buf[capacity] = 255
  /\ ret = <<"show", Ok(Concat(hist))>>

\* ---- C17 --------------------------------------------------------------------
\* C17: len never exceeds the capacity plus the longest fragment, so it stays
\* below the word's modulus and does not wrap; len changes only in a
\* write_str that found len <= capacity, and an overflowed writer stays
\* overflowed.
C17_NoWrap ==
  /\ [](len <= capacity + MaxFragLen /\ len < UsizeModulus)
  /\ [][ /\ len' # len => (len <= Len(buf) /\ hist' # hist)
         /\ len > Len(buf) => (len' = len /\ len' > Len(buf')) ]_vars

C17_Witness ==
  /\ Wrote
  /\ Len(hist) >= 3
  /\ len = capacity + MaxFragLen
  /\ preLen = len
  /\ LastFrag # <<>>

====
